---- MODULE Spec2Model ----
(***************************************************************************)
(* Credential lifecycle of the backend: users, password history, the      *)
(* used-token ledger, signed tokens, the password-reset rate limiter,     *)
(* and the HTTP handlers of the auth router.                              *)
(* Time is counted in minutes.  A JWT is modelled by its payload (the     *)
(* signature makes the payload unforgeable: only minted tokens and one    *)
(* undecodable string are ever presented).                                *)
(***************************************************************************)
EXTENDS Integers, Sequences, FiniteSets, Bags, TLC

VARIABLES users, history, used_tokens, issued, outbox, now, resp, sess, notes,
          gardens, plants

vars == <<users, history, used_tokens, issued, outbox, now, resp, sess, notes, gardens, plants>>

(* ---------------------------------------------------------------- bounds *)
MaxUsers == 2
MaxTime == 2
MaxHistory == 3
MaxSalt == 1
MaxLedger == 3
MaxSessions == 2
MaxClock == 80
MaxStreakClock == 140
MaxNotes == 2
MaxPlants == 2
MaxIssued == 2
MaxRequesters == 5
MaxGardens == 2
ElapseSteps == {20}
StreakSteps == {5}

(* ------------------------------------------------------ program constants *)
MAX_RESET_ATTEMPTS == 4
BASE_LOCKOUT_MINUTES == 5
MAX_LOCKOUT_MINUTES == 60
WINDOW_MINUTES == 60
PASSWORD_RESET_TOKEN_EXPIRE_MINUTES == 1
ACCESS_TOKEN_EXPIRE_MINUTES == 30
REFRESH_TOKEN_EXPIRE_DAYS == 7
REFRESH_TOKEN_EXPIRE_MINUTES == REFRESH_TOKEN_EXPIRE_DAYS * 24 * 60
PASSWORD_HISTORY_SIZE == 5
MIN_PASSWORD_LENGTH == 8
MIN_NOTE_LENGTH == 3
ROUTER_RESET_THRESHOLD == 3
ROUTER_LOCKOUT_MINUTES == 15

(* ------------------------------------------------------------ input sets *)
Ids == 1..MaxUsers
Salts == 1..MaxSalt
Sessions == 1..MaxSessions
Emails == {"a@x.com", "b@x.com"}
Usernames == {"au", "bu"}
FullNames == {"A", "B"}
Unset == "unset"
NoPassword == [txt |-> "unset"]
None == -1

\* A password is its text together with what the validators look at.
Passwords ==
    { [txt |-> "Test1234!", len |-> 9, complex |-> TRUE],
      [txt |-> "Reset123!", len |-> 9, complex |-> TRUE],
      [txt |-> "Password123", len |-> 11, complex |-> FALSE],
      [txt |-> "Abc1!", len |-> 5, complex |-> TRUE] }

FirstPassword == [txt |-> "Test1234!", len |-> 9, complex |-> TRUE]
NoUser == [id |-> 0]
Gone == [id |-> -1]
NoToken == [type |-> "none"]
\* payload.get("sub") of a payload without the claim
NoSub == "<no sub>"
Garbage == [type |-> "garbage"]
Idle == [stage |-> "idle"]
NoteIds == 1..MaxNotes
PlantIds == 1..MaxPlants
GardenIds == 1..MaxGardens
NoGarden == [id |-> 0]
NoPlant == [id |-> 0]
NoNote == [id |-> 0]

\* A note text is what text.strip() leaves of it, with its length.
Texts ==
    { [stripped |-> "Original", len |-> 8],
      [stripped |-> "Editada", len |-> 7],
      [stripped |-> "ok", len |-> 2],
      [stripped |-> "", len |-> 0] }

(* ------------------------------------------------------- password hasher *)
\* pwd_context.hash: a salted one-way hash; the salt is drawn by the caller.
get_password_hash(password, salt) == [bcrypt |-> password.txt, salt |-> salt]

\* pwd_context.verify: re-hash the plain text with the salt stored in the hash.
verify_password(plain_password, hashed_password) ==
    get_password_hash(plain_password, hashed_password.salt) = hashed_password

(* ------------------------------------------------------------ token issuer *)
create_access_token(sub) ==
    [sub |-> sub, type |-> "access", exp |-> now + ACCESS_TOKEN_EXPIRE_MINUTES]

create_refresh_token(sub) ==
    [sub |-> sub, type |-> "refresh", exp |-> now + REFRESH_TOKEN_EXPIRE_MINUTES]

create_password_reset_token(sub) ==
    [sub |-> sub, type |-> "password_reset",
     exp |-> now + PASSWORD_RESET_TOKEN_EXPIRE_MINUTES]

\* jwt.decode with verification of exp switched off.
jwt_decode_no_expiry(token) == IF token = Garbage THEN "JWTError" ELSE "ok"

\* jwt.decode: "JWTError" for an undecodable string, "Expired" once exp has
\* passed, otherwise the payload.
jwt_decode(token) ==
    IF token = Garbage THEN "JWTError"
    ELSE IF token.exp < now THEN "Expired"
    ELSE "ok"

\* hashlib.sha256(token.encode()).hexdigest()
sha256(token) == [sha256 |-> token]

(* ------------------------------------------------------------------ store *)
Exists(i) == users[i] # NoUser /\ users[i] # Gone

UsersByEmail(email) == {i \in Ids : Exists(i) /\ users[i].email = email}

UsersByUsername(username) == {i \in Ids : Exists(i) /\ users[i].username = username}

\* uuid.uuid4: an id that no row has ever had.
FreshIds == {i \in Ids : users[i] = NoUser /\ \A j \in Ids : j < i => users[j] # NoUser}

LedgerHashes == {r.token_hash : r \in BagToSet(used_tokens)}

LedgerSize == BagCardinality(used_tokens)

AddRow(row) == used_tokens (+) SetToBag({row})

\* What the last call answered: a service call its return value or exception,
\* a route its status code and detail.
Response(op, outcome, uid) == [op |-> op, outcome |-> outcome, status |-> 0, uid |-> uid]

RouteResponse(op, answer, uid) ==
    [op |-> op, outcome |-> answer.detail, status |-> answer.status, uid |-> uid]

Init ==
    /\ users = [i \in Ids |-> NoUser]
    /\ history = [i \in Ids |-> <<>>]
    /\ used_tokens = EmptyBag
    /\ issued = {}
    /\ outbox = {}
    /\ now = 0
    /\ resp = Response("init", "none", 0)
    /\ sess = [s \in Sessions |-> Idle]
    /\ notes = [n \in NoteIds |-> NoNote]
    /\ gardens = [g \in GardenIds |-> NoGarden]
    /\ plants = [p \in PlantIds |-> NoPlant]

Tick ==
    /\ now < MaxTime
    /\ now' = now + 1
    /\ UNCHANGED <<users, history, used_tokens, issued, outbox, resp, sess, notes, gardens, plants>>

(* ------------------------------------------------------ service: accounts *)
\* The row create_user inserts; the counters take the column defaults.
NewUser(id, email, username, hashed_password, full_name) ==
    [id |-> id, email |-> email, username |-> username,
     hashed_password |-> hashed_password, full_name |-> full_name,
     is_active |-> TRUE, is_superuser |-> FALSE,
     reset_attempts |-> 0, last_reset_attempt |-> None,
     reset_lockout_until |-> None]

\* validate_password of the request schemas and of reset_password.
validate_password(password) == password.len >= MIN_PASSWORD_LENGTH /\ password.complex

\* UserCreate.password, UserUpdate.new_password: constr(min_length=8) and the validator.
StrongPasswords == {p \in Passwords : p.len >= MIN_PASSWORD_LENGTH /\ validate_password(p)}

\* UserUpdate.current_password: constr(min_length=8) only.
LongPasswords == {p \in Passwords : p.len >= MIN_PASSWORD_LENGTH}

\* The outbox holds the calls made to the email service; whether a call
\* delivered is the boolean it returns.
WelcomeEmail(to) == [to |-> to, kind |-> "welcome", token |-> NoToken]

\* authenticate_user without the password check.
authenticate_user_any_password(email, password) ==
    IF UsersByEmail(email) = {} THEN 0 ELSE CHOOSE i \in UsersByEmail(email) : TRUE

authenticate_user(email, password) ==
    IF UsersByEmail(email) = {} THEN 0
    ELSE LET i == CHOOSE i \in UsersByEmail(email) : TRUE
         IN IF ~verify_password(password, users[i].hashed_password) THEN 0 ELSE i

AuthenticateUser(email, password) ==
    /\ resp' = Response("authenticate_user",
                        IF authenticate_user(email, password) = 0 THEN "none" ELSE "user",
                        authenticate_user(email, password))
    /\ UNCHANGED <<users, history, used_tokens, issued, outbox, now, sess, notes, gardens, plants>>

CreateUser(email, username, password, full_name, salt) ==
    IF UsersByEmail(email) \cup UsersByUsername(username) # {}
    THEN /\ resp' = Response("create_user", "UserAlreadyExists", 0)
         /\ UNCHANGED <<users, history, used_tokens, issued, outbox, now, sess, notes, gardens, plants>>
    ELSE \E id \in FreshIds :
         LET hashed_password == get_password_hash(password, salt) IN
         /\ users' = [users EXCEPT ![id] =
                          NewUser(id, email, username, hashed_password, full_name)]
         /\ history' = [history EXCEPT ![id] = <<hashed_password>>]
         /\ outbox' = outbox \cup {WelcomeEmail(email)}
         /\ resp' = Response("create_user", "created", id)
         /\ UNCHANGED <<used_tokens, issued, now, sess, notes, gardens, plants>>

\* The PASSWORD_HISTORY_SIZE newest entries of a user (newest last).
RecentPasswords(uid) ==
    LET h == history[uid] IN
    IF Len(h) <= PASSWORD_HISTORY_SIZE THEN h
    ELSE SubSeq(h, Len(h) - PASSWORD_HISTORY_SIZE + 1, Len(h))

\* The history check against the current password only.
InRecentHistory_current_only(uid, password) ==
    verify_password(password, users[uid].hashed_password)

InRecentHistory(uid, password) ==
    \E k \in 1..Len(RecentPasswords(uid)) : verify_password(password, RecentPasswords(uid)[k])

DeleteUser(uid) ==
    IF ~Exists(uid)
    THEN /\ resp' = Response("delete_user", "false", uid)
         /\ UNCHANGED <<users, history, used_tokens, issued, outbox, now, sess, notes, gardens, plants>>
    ELSE /\ users' = [users EXCEPT ![uid] = Gone]
         /\ history' = [history EXCEPT ![uid] = <<>>]
         /\ resp' = Response("delete_user", "true", uid)
         /\ UNCHANGED <<used_tokens, issued, outbox, now, sess, notes, gardens, plants>>

(* -------------------------------------------------- service: rate limiter *)
RECURSIVE Pow2(_)
Pow2(k) == IF k <= 0 THEN 1 ELSE 2 * Pow2(k - 1)

Min(a, b) == IF a < b THEN a ELSE b

\* The doubling without the cap of MAX_LOCKOUT_MINUTES.
lockout_minutes_uncapped(reset_attempts) ==
    BASE_LOCKOUT_MINUTES * Pow2(reset_attempts - MAX_RESET_ATTEMPTS - 1)

\* min(BASE_LOCKOUT_MINUTES * 2 ** (attempts - MAX_RESET_ATTEMPTS - 1), MAX_LOCKOUT_MINUTES)
lockout_minutes(reset_attempts) ==
    Min(BASE_LOCKOUT_MINUTES * Pow2(reset_attempts - MAX_RESET_ATTEMPTS - 1),
        MAX_LOCKOUT_MINUTES)

\* The limiter without the test of reset_lockout_until.
LockedOut_never(user) == FALSE

LockedOut_always(user) == TRUE

LockedOut(user) == user.reset_lockout_until # None /\ user.reset_lockout_until > now

\* The window test taking exactly one hour as still inside the hour.
next_reset_attempts_inclusive(user) ==
    IF user.last_reset_attempt # None /\ now - user.last_reset_attempt <= WINDOW_MINUTES
    THEN user.reset_attempts + 1
    ELSE 1

\* The counter after one more attempt: one more inside the hour, else 1.
next_reset_attempts(user) ==
    IF user.last_reset_attempt # None /\ now - user.last_reset_attempt < WINDOW_MINUTES
    THEN user.reset_attempts + 1
    ELSE 1

\* The limit test off by one.
ExceedsLimit_at_limit(reset_attempts) == reset_attempts >= MAX_RESET_ATTEMPTS

ExceedsLimit(reset_attempts) == reset_attempts > MAX_RESET_ATTEMPTS

\* The limiter starting the count again once a lockout has run out.
check_reset_rate_limits_fresh_start(user) ==
    IF LockedOut(user) THEN [outcome |-> "RateLimit", user |-> user]
    ELSE LET counted == [user EXCEPT !.reset_attempts =
                                        IF user.reset_lockout_until # None THEN 1
                                        ELSE next_reset_attempts(user),
                                     !.last_reset_attempt = now,
                                     !.reset_lockout_until = None]
         IN IF ExceedsLimit(counted.reset_attempts)
            THEN [outcome |-> "RateLimit",
                  user |-> [counted EXCEPT !.reset_lockout_until =
                                now + lockout_minutes(counted.reset_attempts)]]
            ELSE [outcome |-> "ok", user |-> counted]

\* _check_reset_rate_limits: the exception it raises (or "ok") and the row it
\* commits.
\* The limiter setting the lockout without raising.
check_reset_rate_limits_no_raise(user) ==
    IF LockedOut(user) THEN [outcome |-> "RateLimit", user |-> user]
    ELSE LET counted == [user EXCEPT !.reset_attempts = next_reset_attempts(user),
                                     !.last_reset_attempt = now]
         IN [outcome |-> "ok", user |-> counted]

check_reset_rate_limits(user) ==
    IF LockedOut(user) THEN [outcome |-> "RateLimit", user |-> user]
    ELSE LET counted == [user EXCEPT !.reset_attempts = next_reset_attempts(user),
                                     !.last_reset_attempt = now]
         IN IF ExceedsLimit(counted.reset_attempts)
            THEN [outcome |-> "RateLimit",
                  user |-> [counted EXCEPT !.reset_lockout_until =
                                now + lockout_minutes(counted.reset_attempts)]]
            ELSE [outcome |-> "ok", user |-> counted]

\* invalidate_previous_tokens: the synthetic ledger row.
InvalidationRow(uid, token_type) ==
    [token_hash |-> [invalidation |-> token_type, user_id |-> uid, at |-> now],
     token_type |-> "invalidation_" \o token_type, user_id |-> uid, used_at |-> now]

ResetEmail(to, token) == [to |-> to, kind |-> "password_reset", token |-> token]

RequestPasswordReset(email, sent) ==
    IF UsersByEmail(email) = {}
    THEN /\ resp' = Response("request_password_reset", "False", 0)
         /\ UNCHANGED <<users, history, used_tokens, issued, outbox, now, sess, notes, gardens, plants>>
    ELSE \E uid \in UsersByEmail(email) :
         LET limit == check_reset_rate_limits(users[uid])
             token == create_password_reset_token(users[uid].username)
         IN IF limit.outcome = "RateLimit"
            THEN /\ users' = [users EXCEPT ![uid] = limit.user]
                 /\ resp' = Response("request_password_reset", "RateLimit", uid)
                 /\ UNCHANGED <<history, used_tokens, issued, outbox, now, sess, notes, gardens, plants>>
            ELSE /\ users' = [users EXCEPT ![uid] = limit.user]
                 /\ used_tokens' = AddRow(InvalidationRow(uid, "password_reset"))
                 /\ issued' = issued \cup {token}
                 /\ outbox' = outbox \cup {ResetEmail(email, token)}
                 /\ resp' = Response("request_password_reset",
                                     IF sent THEN "True" ELSE "False", uid)
                 /\ UNCHANGED <<history, now, sess, notes, gardens, plants>>

\* create_access_token(data, expires_delta): data may carry an iat claim.
create_access_token_for(data, expires_delta) ==
    [exp |-> now + expires_delta, type |-> "access"] @@ data

\* 'iat' in payload
HasIat(token) == "iat" \in DOMAIN token

\* The issue time is_token_valid works with: iat, or exp less the lifetime
\* of a reset token.
estimated_iat(token) ==
    IF HasIat(token) THEN token.iat
    ELSE token.exp - PASSWORD_RESET_TOKEN_EXPIRE_MINUTES

\* is_token_valid answering True when the token does not decode.
is_token_valid_open(token, user_id, token_type) ==
    IF sha256(token) \in LedgerHashes THEN FALSE
    ELSE IF token_type = "password_reset" THEN TRUE
    ELSE IF jwt_decode(token) # "ok" THEN TRUE
    ELSE IF ~HasIat(token) /\ token.type # token_type THEN FALSE
    ELSE ~\E r \in BagToSet(used_tokens) :
              /\ r.user_id = user_id
              /\ r.token_type = "invalidation_" \o token_type
              /\ r.used_at > estimated_iat(token)

\* is_token_valid: only the form page asks it; for the type password_reset
\* it answers before it reads the invalidation markers.
is_token_valid(token, user_id, token_type) ==
    IF sha256(token) \in LedgerHashes THEN FALSE
    ELSE IF token_type = "password_reset" THEN TRUE
    ELSE IF jwt_decode(token) # "ok" THEN FALSE
    ELSE IF ~HasIat(token) /\ token.type # token_type THEN FALSE
    ELSE ~\E r \in BagToSet(used_tokens) :
              /\ r.user_id = user_id
              /\ r.token_type = "invalidation_" \o token_type
              /\ r.used_at > estimated_iat(token)

IsTokenValid(token, user_id, token_type) ==
    /\ resp' = Response("is_token_valid",
                        IF is_token_valid(token, user_id, token_type)
                        THEN "True" ELSE "False", user_id)
    /\ UNCHANGED <<users, history, used_tokens, issued, outbox, now, sess, notes, gardens, plants>>

InvalidatePreviousTokens(user_id, token_type) ==
    /\ used_tokens' = AddRow(InvalidationRow(user_id, token_type))
    /\ resp' = Response("invalidate_previous_tokens", "None", user_id)
    /\ UNCHANGED <<users, history, issued, outbox, now, sess, notes, gardens, plants>>

\* A caller minting an access token, with or without an iat claim.
IssueAccessToken(sub, with_iat, expires_delta) ==
    /\ issued' = issued \cup
                    {create_access_token_for(IF with_iat THEN [sub |-> sub, iat |-> now]
                                             ELSE [sub |-> sub], expires_delta)}
    /\ resp' = Response("create_access_token", "token", 0)
    /\ UNCHANGED <<users, history, used_tokens, outbox, now, sess, notes, gardens, plants>>

(* ---------------------------------------------------- service: reset flow *)
\* _validate_reset_token without the look in the used-token ledger.
validate_reset_token_unchecked(token) ==
    IF jwt_decode(token) = "Expired" THEN [outcome |-> "TokenExpired", uid |-> 0]
    ELSE IF jwt_decode(token) = "JWTError" THEN [outcome |-> "InvalidToken", uid |-> 0]
    ELSE IF token.type # "password_reset" THEN [outcome |-> "InvalidToken", uid |-> 0]
    ELSE IF token.sub = NoSub THEN [outcome |-> "InvalidToken", uid |-> 0]
    ELSE IF UsersByUsername(token.sub) = {} THEN [outcome |-> "UserNotFound", uid |-> 0]
    ELSE [outcome |-> "ok", uid |-> CHOOSE i \in UsersByUsername(token.sub) : TRUE]

\* _validate_reset_token, with the exceptions of jwt.decode as reset_password
\* maps them.
validate_reset_token(token) ==
    IF jwt_decode(token) = "Expired" THEN [outcome |-> "TokenExpired", uid |-> 0]
    ELSE IF jwt_decode(token) = "JWTError" THEN [outcome |-> "InvalidToken", uid |-> 0]
    ELSE IF token.type # "password_reset" THEN [outcome |-> "InvalidToken", uid |-> 0]
    ELSE IF token.sub = NoSub THEN [outcome |-> "InvalidToken", uid |-> 0]
    ELSE IF UsersByUsername(token.sub) = {} THEN [outcome |-> "UserNotFound", uid |-> 0]
    ELSE LET uid == CHOOSE i \in UsersByUsername(token.sub) : TRUE
         IN IF sha256(token) \in LedgerHashes
            THEN [outcome |-> "InvalidToken:used", uid |-> uid]
            ELSE [outcome |-> "ok", uid |-> uid]

\* _validate_password_requirements
validate_password_requirements(new_password) ==
    IF new_password.len < MIN_PASSWORD_LENGTH THEN "InvalidPassword"
    ELSE IF ~validate_password(new_password) THEN "InvalidPassword"
    ELSE "ok"

\* _check_password_history
check_password_history(uid, new_password) ==
    IF InRecentHistory(uid, new_password) THEN "PasswordHistory" ELSE "ok"

\* What reset_password answers in the current state, before it writes.
reset_password(token, new_password) ==
    LET v == validate_reset_token(token) IN
    IF v.outcome # "ok" THEN v
    ELSE IF validate_password_requirements(new_password) # "ok"
         THEN [outcome |-> validate_password_requirements(new_password), uid |-> v.uid]
    ELSE IF check_password_history(v.uid, new_password) # "ok"
         THEN [outcome |-> "PasswordHistory", uid |-> v.uid]
    ELSE [outcome |-> "True", uid |-> v.uid]

UsedRow(token, uid) ==
    [token_hash |-> sha256(token), token_type |-> "password_reset",
     user_id |-> uid, used_at |-> now]

\* _update_user_password leaving the reset counters as they were.
update_user_password_keeps_counters(uid, new_password, salt, token) ==
    LET hashed_new_password == get_password_hash(new_password, salt) IN
    /\ users' = [users EXCEPT ![uid].hashed_password = hashed_new_password]
    /\ history' = [history EXCEPT ![uid] = Append(@, hashed_new_password)]
    /\ used_tokens' = AddRow(UsedRow(token, uid))

\* _update_user_password: one commit.
update_user_password(uid, new_password, salt, token) ==
    LET hashed_new_password == get_password_hash(new_password, salt) IN
    /\ users' = [users EXCEPT ![uid].hashed_password = hashed_new_password,
                              ![uid].reset_attempts = 0,
                              ![uid].reset_lockout_until = None]
    /\ history' = [history EXCEPT ![uid] = Append(@, hashed_new_password)]
    /\ used_tokens' = AddRow(UsedRow(token, uid))

\* reset_password recording the token as used before it looks at the password.
ResetPassword_consumes_token(token, new_password, salt) ==
    LET r == reset_password(token, new_password) IN
    IF r.outcome \in {"InvalidPassword", "PasswordHistory"}
    THEN /\ used_tokens' = AddRow(UsedRow(token, r.uid))
         /\ resp' = Response("reset_password", r.outcome, r.uid)
         /\ UNCHANGED <<users, history, issued, outbox, now, sess, notes, gardens, plants>>
    ELSE IF r.outcome # "True"
    THEN /\ resp' = Response("reset_password", r.outcome, r.uid)
         /\ UNCHANGED <<users, history, used_tokens, issued, outbox, now, sess, notes, gardens, plants>>
    ELSE /\ update_user_password(r.uid, new_password, salt, token)
         /\ resp' = Response("reset_password", "True", r.uid)
         /\ UNCHANGED <<issued, outbox, now, sess, notes, gardens, plants>>

ResetPassword(token, new_password, salt) ==
    LET r == reset_password(token, new_password) IN
    IF r.outcome # "True"
    THEN /\ resp' = Response("reset_password", r.outcome, r.uid)
         /\ UNCHANGED <<users, history, used_tokens, issued, outbox, now, sess, notes, gardens, plants>>
    ELSE /\ update_user_password(r.uid, new_password, salt, token)
         /\ resp' = Response("reset_password", "True", r.uid)
         /\ UNCHANGED <<issued, outbox, now, sess, notes, gardens, plants>>

(* ------------------------------------------------- service: update_user *)
\* The row after the setattr loop over the fields that were sent.
WithProfile(user, email, username, full_name) ==
    [user EXCEPT !.email = IF email = Unset THEN @ ELSE email,
                 !.username = IF username = Unset THEN @ ELSE username,
                 !.full_name = IF full_name = Unset THEN @ ELSE full_name]

\* A unique index on users.email alone.
UniqueViolation_email_only(uid, user) ==
    \E j \in Ids : j # uid /\ Exists(j) /\ users[j].email = user.email

\* unique=True on users.email and users.username: the commit fails when
\* another row holds the value.
UniqueViolation(uid, user) ==
    \E j \in Ids : j # uid /\ Exists(j)
                    /\ (users[j].email = user.email \/ users[j].username = user.username)

\* update_user without the test of current_password.
update_user_unchecked(uid, email, username, full_name, new_password, current_password) ==
    IF ~Exists(uid) THEN "UserNotFound"
    ELSE IF new_password # NoPassword /\ InRecentHistory(uid, new_password)
         THEN "PasswordHistory"
    ELSE IF UniqueViolation(uid, WithProfile(users[uid], email, username, full_name))
         THEN "IntegrityError"
    ELSE "updated"

\* What update_user answers in the current state, before it writes.
update_user(uid, email, username, full_name, new_password, current_password) ==
    IF ~Exists(uid) THEN "UserNotFound"
    ELSE IF new_password # NoPassword
            /\ (current_password = NoPassword
                \/ ~verify_password(current_password, users[uid].hashed_password))
         THEN "InvalidCredentials"
    ELSE IF new_password # NoPassword /\ InRecentHistory(uid, new_password)
         THEN "PasswordHistory"
    ELSE IF UniqueViolation(uid, WithProfile(users[uid], email, username, full_name))
         THEN "IntegrityError"
    ELSE "updated"

\* update_user storing the new hash without its history row.
UpdateUser_no_history(uid, email, username, full_name, new_password, current_password, salt) ==
    LET outcome == update_user(uid, email, username, full_name, new_password, current_password)
        profile == WithProfile(users[uid], email, username, full_name)
    IN IF outcome # "updated"
       THEN /\ resp' = Response("update_user", outcome, uid)
            /\ UNCHANGED <<users, history, used_tokens, issued, outbox, now, sess, notes, gardens, plants>>
       ELSE /\ users' = [users EXCEPT ![uid] =
                            IF new_password = NoPassword THEN profile
                            ELSE [profile EXCEPT !.hashed_password =
                                                    get_password_hash(new_password, salt)]]
            /\ resp' = Response("update_user", "updated", uid)
            /\ UNCHANGED <<history, used_tokens, issued, outbox, now, sess, notes, gardens, plants>>

UpdateUser(uid, email, username, full_name, new_password, current_password, salt) ==
    LET outcome == update_user(uid, email, username, full_name, new_password, current_password)
        profile == WithProfile(users[uid], email, username, full_name)
    IN IF outcome # "updated"
       THEN /\ resp' = Response("update_user", outcome, uid)
            /\ UNCHANGED <<users, history, used_tokens, issued, outbox, now, sess, notes, gardens, plants>>
       ELSE /\ IF new_password = NoPassword
               THEN /\ users' = [users EXCEPT ![uid] = profile]
                    /\ UNCHANGED history
               ELSE LET hashed_new_password == get_password_hash(new_password, salt) IN
                    /\ users' = [users EXCEPT ![uid] =
                                     [profile EXCEPT !.hashed_password = hashed_new_password]]
                    /\ history' = [history EXCEPT ![uid] = Append(@, hashed_new_password)]
            /\ resp' = Response("update_user", "updated", uid)
            /\ UNCHANGED <<used_tokens, issued, outbox, now, sess, notes, gardens, plants>>

(* ----------------------------------------------- service: token resolution *)
\* exceptions.InvalidTokenException raised with a message, as service.py
\* raises it: an InvalidToken answer that carries the message.  (The class
\* in exceptions.py of this tree takes no message.)
InvalidTokenException(detail) == "InvalidToken"

\* get_current_user: the user an access token resolves to, or the exception.
get_current_user(token) ==
    IF jwt_decode(token) = "Expired" THEN [outcome |-> "TokenExpired", uid |-> 0]
    ELSE IF jwt_decode(token) = "JWTError" THEN [outcome |-> "InvalidToken", uid |-> 0]
    ELSE IF token.sub = NoSub THEN [outcome |-> "InvalidCredentials", uid |-> 0]
    ELSE IF token.type # "access"
         THEN [outcome |-> InvalidTokenException("se requiere un token de acceso"),
               uid |-> 0]
    ELSE IF UsersByUsername(token.sub) = {} THEN [outcome |-> "UserNotFound", uid |-> 0]
    ELSE [outcome |-> "user", uid |-> CHOOSE i \in UsersByUsername(token.sub) : TRUE]

\* get_user_from_token without the test of the type tag.
get_user_from_token_any_type(token) ==
    IF jwt_decode(token) = "Expired" THEN [outcome |-> "TokenExpired", uid |-> 0]
    ELSE IF jwt_decode(token) = "JWTError" THEN [outcome |-> "InvalidToken", uid |-> 0]
    ELSE IF token.sub = NoSub THEN [outcome |-> "InvalidToken", uid |-> 0]
    ELSE IF UsersByUsername(token.sub) = {} THEN [outcome |-> "UserNotFound", uid |-> 0]
    ELSE [outcome |-> "user", uid |-> CHOOSE i \in UsersByUsername(token.sub) : TRUE]

\* get_user_from_token: the user a refresh token resolves to, or the exception.
get_user_from_token(token) ==
    IF jwt_decode(token) = "Expired" THEN [outcome |-> "TokenExpired", uid |-> 0]
    ELSE IF jwt_decode(token) = "JWTError" THEN [outcome |-> "InvalidToken", uid |-> 0]
    ELSE IF token.sub = NoSub THEN [outcome |-> "InvalidToken", uid |-> 0]
    ELSE IF token.type # "refresh"
         THEN [outcome |-> InvalidTokenException("se requiere un token de refresco"),
               uid |-> 0]
    ELSE IF UsersByUsername(token.sub) = {} THEN [outcome |-> "UserNotFound", uid |-> 0]
    ELSE [outcome |-> "user", uid |-> CHOOSE i \in UsersByUsername(token.sub) : TRUE]

GetUserFromToken(token) ==
    /\ resp' = Response("get_user_from_token", get_user_from_token(token).outcome,
                        get_user_from_token(token).uid)
    /\ UNCHANGED <<users, history, used_tokens, issued, outbox, now, sess, notes, gardens, plants>>

GetCurrentUser(token) ==
    /\ resp' = Response("get_current_user", get_current_user(token).outcome,
                        get_current_user(token).uid)
    /\ UNCHANGED <<users, history, used_tokens, issued, outbox, now, sess, notes, gardens, plants>>

(* ------------------------------------------------------------ auth router *)
\* str(user.id)
str(id) == ToString(id)

\* db.query(User).filter(User.id == sub)
UsersById(sub) == {i \in Ids : Exists(i) /\ str(i) = sub}

\* POST /auth/token
login_for_access_token(email, password) ==
    IF authenticate_user(email, password) = 0
    THEN [status |-> 400, detail |-> "Credenciales invalidas"]
    ELSE [status |-> 200, detail |-> "Login exitoso"]

RouterLogin(email, password) ==
    LET uid == authenticate_user(email, password)
        r == login_for_access_token(email, password)
    IN /\ resp' = RouteResponse("login", r, uid)
       /\ issued' = IF r.status = 200
                    THEN issued \cup {create_access_token(str(uid)),
                                      create_refresh_token(str(uid))}
                    ELSE issued
       /\ UNCHANGED <<users, history, used_tokens, outbox, now, sess, notes, gardens, plants>>

\* POST /auth/refresh: the answer in the current state.
refresh_token_route(token) ==
    IF jwt_decode(token) = "Expired"
    THEN [status |-> 401, detail |-> "Token de refresco expirado"]
    ELSE IF jwt_decode(token) = "JWTError"
    THEN [status |-> 401, detail |-> "Token de refresco invalido"]
    ELSE IF token.sub = NoSub \/ token.type # "refresh"
    THEN [status |-> 401, detail |-> "Token de refresco invalido"]
    ELSE IF UsersById(token.sub) = {}
    THEN [status |-> 401, detail |-> "Usuario no encontrado"]
    ELSE [status |-> 200, detail |-> "Token refrescado exitosamente"]

RouterRefresh(token) ==
    LET r == refresh_token_route(token) IN
    IF r.status # 200
    THEN /\ resp' = RouteResponse("refresh", r, 0)
         /\ UNCHANGED <<users, history, used_tokens, issued, outbox, now, sess, notes, gardens, plants>>
    ELSE \E uid \in UsersById(token.sub) :
         /\ issued' = issued \cup {create_access_token(str(uid)), create_refresh_token(str(uid))}
         /\ resp' = RouteResponse("refresh", r, uid)
         /\ UNCHANGED <<users, history, used_tokens, outbox, now, sess, notes, gardens, plants>>

GenericResetAnswer ==
    [status |-> 200, detail |-> "Si existe una cuenta con ese email, recibiras instrucciones"]

\* The reset token the router mints for a user row: its subject is the id
\* the router's reset handlers look the user up by.
router_reset_token(user) == create_password_reset_token(str(user.id))

\* POST /auth/password-reset-request: the answer in the current state.
\* delivered: send_password_reset_email returned without raising.
\* The route telling the caller that the address is unknown.
request_password_reset_route_not_found(email, delivered) ==
    IF UsersByEmail(email) = {}
    THEN [status |-> 404, detail |-> "Usuario no encontrado"]
    ELSE GenericResetAnswer

request_password_reset_route(email, delivered) ==
    IF UsersByEmail(email) = {} THEN GenericResetAnswer
    ELSE LET user == users[CHOOSE i \in UsersByEmail(email) : TRUE] IN
         IF user.reset_attempts >= ROUTER_RESET_THRESHOLD /\ LockedOut(user)
         THEN [status |-> 429, detail |-> "Demasiados intentos"]
         ELSE IF ~delivered
         THEN [status |-> 500, detail |-> "Error al enviar el email de restablecimiento"]
         ELSE GenericResetAnswer

RouterRequestPasswordReset(email, delivered) ==
    LET r == request_password_reset_route(email, delivered) IN
    IF UsersByEmail(email) = {} \/ r.status = 429
    THEN /\ resp' = RouteResponse("password_reset_request", r, 0)
         /\ UNCHANGED <<users, history, used_tokens, issued, outbox, now, sess, notes, gardens, plants>>
    ELSE \E uid \in UsersByEmail(email) :
         LET user == users[uid]
             base == IF user.reset_attempts >= ROUTER_RESET_THRESHOLD
                     THEN [user EXCEPT !.reset_attempts = 0, !.reset_lockout_until = None]
                     ELSE user
             counted == [base EXCEPT !.reset_attempts = @ + 1]
             token == router_reset_token(user)
         IN /\ issued' = issued \cup {token}
            /\ outbox' = outbox \cup {ResetEmail(email, token)}
            /\ users' = IF r.status = 500 THEN users
                        ELSE [users EXCEPT ![uid] =
                                 IF counted.reset_attempts >= ROUTER_RESET_THRESHOLD
                                 THEN [counted EXCEPT !.reset_lockout_until =
                                                          now + ROUTER_LOCKOUT_MINUTES]
                                 ELSE counted]
            /\ resp' = RouteResponse("password_reset_request", r, uid)
            /\ UNCHANGED <<history, used_tokens, now, sess, notes, gardens, plants>>

\* POST /auth/password-reset: the answer in the current state.
reset_password_route(token, new_password) ==
    IF jwt_decode(token) = "Expired"
    THEN [status |-> 400, detail |-> "El enlace de restablecimiento ha expirado"]
    ELSE IF jwt_decode(token) = "JWTError" \/ token.type # "password_reset"
    THEN [status |-> 400, detail |-> "Token invalido"]
    ELSE IF UsersById(token.sub) = {}
    THEN [status |-> 400, detail |-> "Usuario no encontrado"]
    ELSE IF sha256(token) \in LedgerHashes
    THEN [status |-> 400, detail |-> "Este enlace ya ha sido utilizado"]
    ELSE IF ~validate_password(new_password)
    THEN [status |-> 400, detail |-> "password"]
    ELSE [status |-> 200, detail |-> "Contrasena actualizada exitosamente"]

RouterResetPassword(token, new_password, salt) ==
    LET r == reset_password_route(token, new_password) IN
    IF r.status # 200
    THEN /\ resp' = RouteResponse("password_reset", r, 0)
         /\ UNCHANGED <<users, history, used_tokens, issued, outbox, now, sess, notes, gardens, plants>>
    ELSE \E uid \in UsersById(token.sub) :
         /\ update_user_password(uid, new_password, salt, token)
         /\ resp' = RouteResponse("password_reset", r, uid)
         /\ UNCHANGED <<issued, outbox, now, sess, notes, gardens, plants>>

(* ------------------------------------------ reset_password, step by step *)
\* Two requests run reset_password in their own database sessions: the
\* checks read the committed rows, the commit comes later.
\* The UPDATE a session's commit sends for a row it loaded: the columns
\* whose assigned value differs from the loaded one, and only those.
flush(row, loaded, assigned) ==
    [c \in DOMAIN row |-> IF assigned[c] # loaded[c] THEN assigned[c] ELSE row[c]]

ResetBegin(s, token, new_password) ==
    LET r == reset_password(token, new_password) IN
    /\ sess[s] = Idle
    /\ IF r.outcome # "True"
       THEN /\ resp' = Response("reset_password", r.outcome, r.uid)
            /\ UNCHANGED sess
       ELSE /\ sess' = [sess EXCEPT ![s] = [stage |-> "checked", token |-> token,
                                             new_password |-> new_password, uid |-> r.uid,
                                             user |-> users[r.uid]]]
            /\ UNCHANGED resp
    /\ UNCHANGED <<users, history, used_tokens, issued, outbox, now, notes, gardens, plants>>

ResetCommit(s, salt) ==
    /\ sess[s] # Idle
    /\ sess' = [sess EXCEPT ![s] = Idle]
    /\ IF Exists(sess[s].uid)
       THEN LET uid == sess[s].uid
                hashed_new_password == get_password_hash(sess[s].new_password, salt)
                assigned == [sess[s].user EXCEPT !.hashed_password = hashed_new_password,
                                                 !.reset_attempts = 0,
                                                 !.reset_lockout_until = None]
            IN /\ users' = [users EXCEPT ![uid] = flush(@, sess[s].user, assigned)]
               /\ history' = [history EXCEPT ![uid] = Append(@, hashed_new_password)]
               /\ used_tokens' = AddRow(UsedRow(sess[s].token, uid))
               /\ resp' = Response("reset_password", "True", uid)
       ELSE /\ resp' = Response("reset_password", "StaleDataError", sess[s].uid)
            /\ UNCHANGED <<users, history, used_tokens, notes, gardens, plants>>
    /\ UNCHANGED <<issued, outbox, now, notes, gardens, plants>>

(* ---------------------------------------------- create_user, step by step *)
\* Two requests run create_user in their own database sessions: the query
\* for a holder of the email or the username, the commit of the user row,
\* and the commit of the first history row.
CreateBegin(s, email, username, password, salt) ==
    /\ sess[s] = Idle
    /\ IF UsersByEmail(email) \cup UsersByUsername(username) # {}
       THEN /\ resp' = Response("create_user", "UserAlreadyExists", 0)
            /\ UNCHANGED sess
       ELSE /\ sess' = [sess EXCEPT ![s] =
                           [stage |-> "queried", email |-> email, username |-> username,
                            hashed_password |-> get_password_hash(password, salt)]]
            /\ UNCHANGED resp
    /\ UNCHANGED <<users, history, used_tokens, issued, outbox, now, notes, gardens, plants>>

\* db.add(db_user); db.commit(): the unique indexes refuse a second holder.
CreateCommitUser(s) ==
    /\ sess[s].stage = "queried"
    /\ IF UsersByEmail(sess[s].email) \cup UsersByUsername(sess[s].username) # {}
       THEN /\ sess' = [sess EXCEPT ![s] = Idle]
            /\ resp' = Response("create_user", "IntegrityError", 0)
            /\ UNCHANGED users
       ELSE \E id \in FreshIds :
            /\ users' = [users EXCEPT ![id] =
                             NewUser(id, sess[s].email, sess[s].username,
                                     sess[s].hashed_password, "A")]
            /\ sess' = [sess EXCEPT ![s] =
                           [stage |-> "user_committed", uid |-> id,
                            hashed_password |-> sess[s].hashed_password]]
            /\ UNCHANGED resp
    /\ UNCHANGED <<history, used_tokens, issued, outbox, now, notes, gardens, plants>>

\* db.add(password_history); db.commit(); send_welcome_email.
CreateCommitHistory(s) ==
    /\ sess[s].stage = "user_committed"
    /\ sess' = [sess EXCEPT ![s] = Idle]
    /\ history' = [history EXCEPT ![sess[s].uid] = Append(@, sess[s].hashed_password)]
    /\ outbox' = outbox \cup {WelcomeEmail(users[sess[s].uid].email)}
    /\ resp' = Response("create_user", "created", sess[s].uid)
    /\ UNCHANGED <<users, used_tokens, issued, now, notes, gardens, plants>>

(* ------------------------------------ request_password_reset, step by step *)
\* Several requests run request_password_reset in their own database
\* sessions.  The query loads the user row into the session; the limiter
\* computes on the loaded values and commits the columns it assigned; the
\* marker, the token and the email follow.
RequestBegin(s, email) ==
    /\ sess[s] = Idle
    /\ IF UsersByEmail(email) = {}
       THEN /\ sess' = [sess EXCEPT ![s] = [stage |-> "done", uid |-> 0, outcome |-> "False",
                                            admitted |-> FALSE]]
            /\ resp' = Response("request_password_reset", "False", 0)
       ELSE \E uid \in UsersByEmail(email) :
            /\ sess' = [sess EXCEPT ![s] = [stage |-> "loaded", uid |-> uid,
                                            user |-> users[uid]]]
            /\ UNCHANGED resp
    /\ UNCHANGED <<users, history, used_tokens, issued, outbox, now, notes, gardens, plants>>

\* The limiter as it would run under SELECT ... FOR UPDATE: it computes on
\* the row as it is at commit time.
RequestCheck_serialized(s) ==
    /\ sess[s].stage = "loaded"
    /\ LET uid == sess[s].uid
           limit == check_reset_rate_limits(users[uid])
       IN /\ users' = [users EXCEPT ![uid] = limit.user]
          /\ IF limit.outcome = "RateLimit"
             THEN /\ sess' = [sess EXCEPT ![s] = [stage |-> "done", uid |-> uid,
                                                  outcome |-> "RateLimit",
                                                  admitted |-> FALSE]]
                  /\ resp' = Response("request_password_reset", "RateLimit", uid)
             ELSE /\ sess' = [sess EXCEPT ![s] = [stage |-> "counted", uid |-> uid,
                                                  user |-> limit.user]]
                  /\ UNCHANGED resp
    /\ UNCHANGED <<history, used_tokens, issued, outbox, now, notes, gardens, plants>>

\* _check_reset_rate_limits on the loaded row; the UPDATE writes the
\* columns the session changed, whatever the row holds by now.
RequestCheck(s) ==
    /\ sess[s].stage = "loaded"
    /\ LET uid == sess[s].uid
           limit == check_reset_rate_limits(sess[s].user)
       IN /\ users' = [users EXCEPT ![uid] = flush(@, sess[s].user, limit.user)]
          /\ IF limit.outcome = "RateLimit"
             THEN /\ sess' = [sess EXCEPT ![s] = [stage |-> "done", uid |-> uid,
                                                  outcome |-> "RateLimit",
                                                  admitted |-> FALSE]]
                  /\ resp' = Response("request_password_reset", "RateLimit", uid)
             ELSE /\ sess' = [sess EXCEPT ![s] = [stage |-> "counted", uid |-> uid,
                                                  user |-> limit.user]]
                  /\ UNCHANGED resp
    /\ UNCHANGED <<history, used_tokens, issued, outbox, now, notes, gardens, plants>>

\* _create_new_reset_token and _send_password_reset_email.
RequestMint(s, sent) ==
    /\ sess[s].stage = "counted"
    /\ LET uid == sess[s].uid
           token == create_password_reset_token(sess[s].user.username)
       IN /\ used_tokens' = AddRow(InvalidationRow(uid, "password_reset"))
          /\ issued' = issued \cup {token}
          /\ outbox' = outbox \cup {ResetEmail(sess[s].user.email, token)}
          /\ sess' = [sess EXCEPT ![s] = [stage |-> "done", uid |-> uid,
                                          outcome |-> IF sent THEN "True" ELSE "False",
                                          admitted |-> TRUE]]
          /\ resp' = Response("request_password_reset",
                              IF sent THEN "True" ELSE "False", uid)
    /\ UNCHANGED <<users, history, now, notes, gardens, plants>>

(* ------------------------------------------------------ gardens and plants *)
GardenNames == {"Huerto", "Patio"}
Aliases == {"Rosa", "Menta"}

HasGarden(g) == g \in GardenIds /\ gardens[g] # NoGarden
HasPlant(p) == p \in PlantIds /\ plants[p] # NoPlant

\* db.query(Garden).filter(Garden.user_id == user_id, Garden.name == name)
GardensNamed(user_id, name) ==
    {g \in GardenIds : HasGarden(g) /\ gardens[g].user_id = user_id /\ gardens[g].name = name}

\* db.query(Plant).filter(Plant.user_id == user_id, Plant.alias == alias)
PlantsByAlias(user_id, alias) ==
    {p \in PlantIds : HasPlant(p) /\ plants[p].user_id = user_id /\ plants[p].alias = alias}

FreeGardenIds ==
    {g \in GardenIds : gardens[g] = NoGarden /\ \A h \in GardenIds : h < g => gardens[h] # NoGarden}

FreePlantIds ==
    {p \in PlantIds : plants[p] = NoPlant /\ \A q \in PlantIds : q < p => plants[q] # NoPlant}

\* get_garden: the garden with this id that belongs to this user
get_garden(garden_id, user_id) ==
    IF HasGarden(garden_id) /\ gardens[garden_id].user_id = user_id THEN garden_id ELSE 0

\* get_plant, get_plant_by_id: the plant with this id that belongs to this user
get_plant(plant_id, user_id) ==
    IF HasPlant(plant_id) /\ plants[plant_id].user_id = user_id THEN plant_id ELSE 0

\* create_garden: the existence query, then the insert.  The table has no
\* unique constraint on (user_id, name); the foreign key wants the user.
create_garden(user_id, name) ==
    IF GardensNamed(user_id, name) # {} THEN "ValueError:exists"
    ELSE IF ~Exists(user_id) THEN "ValueError:integrity"
    ELSE "created"

CreateGarden(user_id, name) ==
    /\ IF create_garden(user_id, name) = "created"
       THEN \E g \in FreeGardenIds :
               gardens' = [gardens EXCEPT ![g] = [id |-> g, user_id |-> user_id, name |-> name]]
       ELSE UNCHANGED gardens
    /\ resp' = Response("create_garden", create_garden(user_id, name), user_id)
    /\ UNCHANGED <<users, history, used_tokens, issued, outbox, now, sess, notes, plants>>

\* create_garden in a session of its own: the existence query ...
CreateGardenBegin(s, user_id, name) ==
    /\ sess[s] = Idle
    /\ IF GardensNamed(user_id, name) # {}
       THEN /\ resp' = Response("create_garden", "ValueError:exists", user_id)
            /\ UNCHANGED sess
       ELSE /\ sess' = [sess EXCEPT ![s] = [stage |-> "garden_checked",
                                            user_id |-> user_id, name |-> name]]
            /\ UNCHANGED resp
    /\ UNCHANGED <<users, history, used_tokens, issued, outbox, now, notes, gardens, plants>>

\* ... and db.add(garden); db.commit().
CreateGardenCommit(s) ==
    /\ sess[s].stage = "garden_checked"
    /\ sess' = [sess EXCEPT ![s] = Idle]
    /\ IF Exists(sess[s].user_id)
       THEN /\ \E g \in FreeGardenIds :
                  gardens' = [gardens EXCEPT ![g] = [id |-> g, user_id |-> sess[s].user_id,
                                                    name |-> sess[s].name]]
            /\ resp' = Response("create_garden", "created", sess[s].user_id)
       ELSE /\ resp' = Response("create_garden", "ValueError:integrity", sess[s].user_id)
            /\ UNCHANGED gardens
    /\ UNCHANGED <<users, history, used_tokens, issued, outbox, now, notes, plants>>

\* update_garden; name is Unset when the request does not carry one.
update_garden(garden_id, user_id, name) ==
    IF get_garden(garden_id, user_id) = 0 THEN "404"
    ELSE IF /\ name # Unset
            /\ name # gardens[garden_id].name
            /\ GardensNamed(user_id, name) \ {garden_id} # {}
    THEN "ValueError:exists"
    ELSE "updated"

UpdateGarden(garden_id, user_id, name) ==
    /\ gardens' = IF update_garden(garden_id, user_id, name) = "updated" /\ name # Unset
                  THEN [gardens EXCEPT ![garden_id].name = name]
                  ELSE gardens
    /\ resp' = Response("update_garden", update_garden(garden_id, user_id, name), user_id)
    /\ UNCHANGED <<users, history, used_tokens, issued, outbox, now, sess, notes, plants>>

\* delete_garden; the garden's plants go with it (cascade).
DeleteGarden(garden_id, user_id) ==
    IF get_garden(garden_id, user_id) = 0
    THEN /\ resp' = Response("delete_garden", "404", user_id)
         /\ UNCHANGED <<users, history, used_tokens, issued, outbox, now, sess, notes,
                        gardens, plants>>
    ELSE /\ gardens' = [gardens EXCEPT ![garden_id] = NoGarden]
         /\ plants' = [p \in PlantIds |->
                          IF HasPlant(p) /\ plants[p].garden_id = garden_id
                          THEN NoPlant ELSE plants[p]]
         /\ resp' = Response("delete_garden", "True", user_id)
         /\ UNCHANGED <<users, history, used_tokens, issued, outbox, now, sess, notes>>

\* create_plant: the alias query, then the insert with the garden_id of the
\* request; the foreign keys want the garden and the user to exist.
create_plant(user_id, alias, garden_id) ==
    IF PlantsByAlias(user_id, alias) # {} THEN "400"
    ELSE IF ~HasGarden(garden_id) \/ ~Exists(user_id) THEN "500"
    ELSE "created"

CreatePlant(user_id, alias, garden_id) ==
    /\ IF create_plant(user_id, alias, garden_id) = "created"
       THEN \E p \in FreePlantIds :
               plants' = [plants EXCEPT ![p] = [id |-> p, user_id |-> user_id,
                                                garden_id |-> garden_id, alias |-> alias]]
       ELSE UNCHANGED plants
    /\ resp' = Response("create_plant", create_plant(user_id, alias, garden_id), user_id)
    /\ UNCHANGED <<users, history, used_tokens, issued, outbox, now, sess, notes, gardens>>

\* add_plant_to_garden: get_garden first, then as create_plant.
add_plant_to_garden(garden_id, user_id, alias) ==
    IF get_garden(garden_id, user_id) = 0 THEN "404"
    ELSE IF PlantsByAlias(user_id, alias) # {} THEN "400"
    ELSE "created"

AddPlantToGarden(garden_id, user_id, alias) ==
    /\ IF add_plant_to_garden(garden_id, user_id, alias) = "created"
       THEN \E p \in FreePlantIds :
               plants' = [plants EXCEPT ![p] = [id |-> p, user_id |-> user_id,
                                                garden_id |-> garden_id, alias |-> alias]]
       ELSE UNCHANGED plants
    /\ resp' = Response("add_plant_to_garden",
                        add_plant_to_garden(garden_id, user_id, alias), user_id)
    /\ UNCHANGED <<users, history, used_tokens, issued, outbox, now, sess, notes, gardens>>

\* update_plant (plants) and update_plant_by_id (gardens): PlantUpdate has
\* no garden_id and no user_id; alias is Unset when the request has none.
update_plant(plant_id, user_id, alias) ==
    IF get_plant(plant_id, user_id) = 0 THEN "404"
    ELSE IF /\ alias # Unset
            /\ alias # plants[plant_id].alias
            /\ PlantsByAlias(user_id, alias) # {}
    THEN "400"
    ELSE "updated"

UpdatePlant(plant_id, user_id, alias) ==
    /\ plants' = IF update_plant(plant_id, user_id, alias) = "updated" /\ alias # Unset
                 THEN [plants EXCEPT ![plant_id].alias = alias]
                 ELSE plants
    /\ resp' = Response("update_plant", update_plant(plant_id, user_id, alias), user_id)
    /\ UNCHANGED <<users, history, used_tokens, issued, outbox, now, sess, notes, gardens>>

update_plant_by_id(plant_id, user_id, alias) ==
    IF get_plant(plant_id, user_id) = 0 THEN "404"
    ELSE IF /\ alias # Unset
            /\ alias # plants[plant_id].alias
            /\ PlantsByAlias(user_id, alias) \ {plant_id} # {}
    THEN "400"
    ELSE "updated"

UpdatePlantById(plant_id, user_id, alias) ==
    /\ plants' = IF update_plant_by_id(plant_id, user_id, alias) = "updated" /\ alias # Unset
                 THEN [plants EXCEPT ![plant_id].alias = alias]
                 ELSE plants
    /\ resp' = Response("update_plant_by_id",
                        update_plant_by_id(plant_id, user_id, alias), user_id)
    /\ UNCHANGED <<users, history, used_tokens, issued, outbox, now, sess, notes, gardens>>

\* delete_plant, delete_plant_by_id
DeletePlant(plant_id, user_id) ==
    /\ plants' = IF get_plant(plant_id, user_id) = 0 THEN plants
                 ELSE [plants EXCEPT ![plant_id] = NoPlant]
    /\ resp' = Response("delete_plant",
                        IF get_plant(plant_id, user_id) = 0 THEN "404" ELSE "True", user_id)
    /\ UNCHANGED <<users, history, used_tokens, issued, outbox, now, sess, notes, gardens>>

(* ------------------------------------------------------------ plant notes *)
\* The plants table: plant p is a row whose user_id is user p.
PlantRows == [p \in PlantIds |-> [id |-> p, user_id |-> p]]

\* The user a note belongs to: the user_id of the plant it is attached to.
NoteOwner(note_id) == PlantRows[notes[note_id].plant_id].user_id

\* hasattr(note, 'user_id'): PlantNote has no such column or attribute.
NoteHasUserId == FALSE

FreshNoteIds ==
    {n \in NoteIds : notes[n] = NoNote /\ \A m \in NoteIds : m < n => notes[m] # NoNote}

create_plant_note(plant_id, text) ==
    IF plant_id \notin PlantIds
    THEN [status |-> 404, detail |-> "La planta especificada no existe."]
    ELSE IF text.len = 0
    THEN [status |-> 400, detail |-> "El texto de la nota no puede estar vacio."]
    ELSE IF text.len < MIN_NOTE_LENGTH
    THEN [status |-> 400, detail |-> "El texto de la nota debe tener al menos 3 caracteres."]
    ELSE [status |-> 201, detail |-> "note"]

\* POST /{plant_id}/notes
CreatePlantNote(plant_id, text) ==
    LET r == create_plant_note(plant_id, text) IN
    /\ IF r.status # 201
       THEN /\ resp' = RouteResponse("create_plant_note", r, 0)
            /\ UNCHANGED notes
       ELSE \E id \in FreshNoteIds :
            /\ notes' = [notes EXCEPT ![id] =
                             [id |-> id, plant_id |-> plant_id, text |-> text.stripped]]
            /\ resp' = RouteResponse("create_plant_note", r, 0)
    /\ UNCHANGED <<users, history, used_tokens, issued, outbox, now, sess, gardens, plants>>

\* What update_plant_note answers; user_id is None when the caller gives none.
update_plant_note(note_id, user_id) ==
    IF notes[note_id] = NoNote
    THEN [status |-> 404, detail |-> "Nota no encontrada"]
    ELSE IF user_id # None /\ NoteHasUserId /\ notes[note_id].user_id # user_id
    THEN [status |-> 403, detail |-> "No tienes permiso para editar esta nota"]
    ELSE [status |-> 200, detail |-> "note"]

UpdatePlantNote(note_id, text, user_id) ==
    LET r == update_plant_note(note_id, user_id) IN
    /\ resp' = RouteResponse("update_plant_note", r, user_id)
    /\ notes' = IF r.status = 200
                THEN [notes EXCEPT ![note_id].text = text.stripped]
                ELSE notes
    /\ UNCHANGED <<users, history, used_tokens, issued, outbox, now, sess, gardens, plants>>

\* What delete_plant_note answers: reading note.user_id raises AttributeError.
delete_plant_note(note_id, user_id) ==
    IF notes[note_id] = NoNote
    THEN [status |-> 404, detail |-> "Nota no encontrada"]
    ELSE IF ~NoteHasUserId
    THEN [status |-> 500, detail |-> "AttributeError"]
    ELSE IF notes[note_id].user_id # user_id
    THEN [status |-> 403, detail |-> "No tienes permiso para eliminar esta nota"]
    ELSE [status |-> 200, detail |-> "deleted"]

DeletePlantNote(note_id, user_id) ==
    LET r == delete_plant_note(note_id, user_id) IN
    /\ resp' = RouteResponse("delete_plant_note", r, user_id)
    /\ notes' = IF r.status = 200 THEN [notes EXCEPT ![note_id] = NoNote] ELSE notes
    /\ UNCHANGED <<users, history, used_tokens, issued, outbox, now, sess, gardens, plants>>

\* PUT /notes/{note_id}: update_plant_note(db, note_id, note), whoever sends it.
EditPlantNote(note_id, text, caller) ==
    LET r == update_plant_note(note_id, None) IN
    /\ resp' = RouteResponse("edit_plant_note", r, caller)
    /\ notes' = IF r.status = 200
                THEN [notes EXCEPT ![note_id].text = text.stripped]
                ELSE notes
    /\ UNCHANGED <<users, history, used_tokens, issued, outbox, now, sess, gardens, plants>>

\* DELETE /notes/{note_id}: delete_plant_note(db, note_id) lacks the user_id
\* argument, a TypeError.
RemovePlantNote(note_id, caller) ==
    /\ resp' = RouteResponse("remove_plant_note",
                             [status |-> 500, detail |-> "TypeError"], caller)
    /\ UNCHANGED <<users, history, used_tokens, issued, outbox, now, sess, notes, gardens, plants>>

PresentableTokens == issued \cup {Garbage}

\* Registration requests: an address with the user name that goes with it.
Accounts == {<<"a@x.com", "au">>, <<"b@x.com", "bu">>}

HistoryRoom == \A i \in Ids : Len(history[i]) < MaxHistory

LedgerRoom == LedgerSize < MaxLedger

Register == \E a \in Accounts, p \in StrongPasswords, s \in Salts :
                CreateUser(a[1], a[2], p, "A", s)

\* One account only, where a second one adds nothing.
RegisterFirst == \E s \in Salts : CreateUser("a@x.com", "au", FirstPassword, "A", s)

\* The reset flow through the service functions.
Next ==
    \/ Tick
    \/ Register
    \/ \E i \in Ids : DeleteUser(i)
    \/ \E e \in Emails, sent \in BOOLEAN : LedgerRoom /\ RequestPasswordReset(e, sent)
    \/ \E t \in PresentableTokens, p \in Passwords, s \in Salts :
          (reset_password(t, p).outcome = "True" => HistoryRoom) /\ ResetPassword(t, p, s)

Spec == Init /\ [][Next]_vars

\* Accounts and passwords through the service functions.
NextAccounts ==
    \/ \E e \in Emails, n \in Usernames, p \in StrongPasswords, s \in Salts :
          CreateUser(e, n, p, "A", s)
    \/ \E i \in Ids, e \in Emails \cup {Unset}, n \in Usernames \cup {Unset},
          f \in FullNames \cup {Unset} :
          UpdateUser(i, e, n, f, NoPassword, NoPassword, 1)
    \/ \E i \in Ids, e \in Emails \cup {Unset}, np \in StrongPasswords,
          cp \in LongPasswords \cup {NoPassword}, s \in Salts :
          (update_user(i, e, Unset, Unset, np, cp) = "updated" => HistoryRoom)
          /\ UpdateUser(i, e, Unset, Unset, np, cp, s)
    \/ \E e \in Emails, p \in Passwords : AuthenticateUser(e, p)
    \/ \E i \in Ids : DeleteUser(i)

SpecAccounts == Init /\ [][NextAccounts]_vars

\* Login and the /auth/me routes.
NextLogin ==
    \/ Register
    \/ \E e \in Emails, p \in Passwords : RouterLogin(e, p)
    \/ \E t \in PresentableTokens : GetCurrentUser(t)
    \/ \E i \in Ids, f \in FullNames : UpdateUser(i, Unset, Unset, f, NoPassword, NoPassword, 1)

SpecLogin == Init /\ [][NextLogin]_vars

\* The reset routes of the auth router, next to the service's request.
NextRouter ==
    \/ Tick
    \/ RegisterFirst
    \/ \E e \in Emails, sent \in BOOLEAN : LedgerRoom /\ RequestPasswordReset(e, sent)
    \/ \E e \in Emails, d \in BOOLEAN : RouterRequestPasswordReset(e, d)
    \/ \E t \in PresentableTokens, p \in Passwords, s \in Salts :
          (reset_password_route(t, p).status = 200 => HistoryRoom)
          /\ RouterResetPassword(t, p, s)

SpecRouter == Init /\ [][NextRouter]_vars

\* reset_password run by concurrent requests.
NextConc ==
    \/ Register
    \/ \E e \in Emails : LedgerRoom /\ RequestPasswordReset(e, TRUE)
    \/ \E x \in Sessions, t \in PresentableTokens, p \in Passwords :
          (reset_password(t, p).outcome = "True" => HistoryRoom) /\ ResetBegin(x, t, p)
    \/ \E x \in Sessions, s \in Salts : ResetCommit(x, s)

SpecConc == Init /\ [][NextConc]_vars

\* Requests for a reset interleaved with a reset running in its own session.
NextLock ==
    \/ RegisterFirst
    \/ RequestPasswordReset("a@x.com", TRUE)
    \/ \E x \in Sessions, t \in issued, p \in Passwords : ResetBegin(x, t, p)
    \/ \E x \in Sessions, s \in Salts : ResetCommit(x, s)

SpecLock == Init /\ [][NextLock]_vars

\* The rate limiter over a longer stretch of time, for one account.
Elapse(minutes) ==
    /\ now + minutes <= MaxClock
    /\ now' = now + minutes
    /\ UNCHANGED <<users, history, used_tokens, issued, outbox, resp, sess, notes, gardens, plants>>

NextRate ==
    \/ RegisterFirst
    \/ \E m \in ElapseSteps : Elapse(m)
    \/ \E e \in Emails, sent \in BOOLEAN : RequestPasswordReset(e, sent)

SpecRate == Init /\ [][NextRate]_vars

\* Time passes while a locked-out requester waits for the lockout to end.
WaitOut(minutes) ==
    /\ \E i \in Ids : Exists(i) /\ LockedOut(users[i])
    /\ now + minutes <= MaxStreakClock
    /\ now' = now + minutes
    /\ UNCHANGED <<users, history, used_tokens, issued, outbox, resp, sess, notes, gardens, plants>>

\* One account asking for resets again and again, and again as soon as a
\* lockout has ended.
NextStreak ==
    \/ RegisterFirst
    \/ \E m \in ElapseSteps : Elapse(m)
    \/ \E m \in StreakSteps : WaitOut(m)
    \/ RequestPasswordReset("a@x.com", TRUE)

SpecStreak == Init /\ [][NextStreak]_vars

\* Password changes of one account, by update and by reset.
NextHistory ==
    \/ Tick
    \/ RegisterFirst
    \/ LedgerRoom /\ RequestPasswordReset("a@x.com", TRUE)
    \/ \E t \in PresentableTokens, p \in Passwords, s \in Salts :
          (reset_password(t, p).outcome = "True" => HistoryRoom) /\ ResetPassword(t, p, s)
    \/ \E i \in Ids, np \in StrongPasswords, cp \in LongPasswords \cup {NoPassword},
          s \in Salts :
          (update_user(i, Unset, Unset, Unset, np, cp) = "updated" => HistoryRoom)
          /\ UpdateUser(i, Unset, Unset, Unset, np, cp, s)

SpecHistory == Init /\ [][NextHistory]_vars

\* Tokens the mint functions give for a payload without subject, and access
\* and refresh tokens that carry a user name.
SubjectlessTokens == {create_access_token(NoSub), create_refresh_token(NoSub),
                      create_password_reset_token(NoSub)}

NamedTokens == {create_access_token("au"), create_refresh_token("au")}

AnyTokens == PresentableTokens \cup SubjectlessTokens \cup NamedTokens

\* reset_password presented with every kind of token.
NextVerify ==
    \/ Tick
    \/ RegisterFirst
    \/ \E i \in Ids : DeleteUser(i)
    \/ LedgerRoom /\ RequestPasswordReset("a@x.com", TRUE)
    \/ \E t \in AnyTokens, p \in Passwords, s \in Salts :
          (reset_password(t, p).outcome = "True" => HistoryRoom) /\ ResetPassword(t, p, s)

SpecVerify == Init /\ [][NextVerify]_vars

\* Tokens of all three types at all the places that take one.
NextTokens ==
    \/ Tick
    \/ RegisterFirst
    \/ \E p \in Passwords : RouterLogin("a@x.com", p)
    \/ LedgerRoom /\ RequestPasswordReset("a@x.com", TRUE)
    \/ \E t \in AnyTokens, p \in Passwords, s \in Salts :
          (reset_password(t, p).outcome = "True" => HistoryRoom) /\ ResetPassword(t, p, s)
    \/ \E t \in AnyTokens : GetCurrentUser(t)
    \/ \E t \in AnyTokens : GetUserFromToken(t)
    \/ \E t \in AnyTokens : RouterRefresh(t)

SpecTokens == Init /\ [][NextTokens]_vars

\* create_user in two sessions at once, and update_user of the profile.
NextCreate ==
    \/ \E x \in Sessions, e \in Emails, n \in Usernames, s \in Salts :
          CreateBegin(x, e, n, FirstPassword, s)
    \/ \E x \in Sessions : CreateCommitUser(x)
    \/ \E x \in Sessions : CreateCommitHistory(x)
    \/ \E i \in Ids, e \in Emails \cup {Unset}, n \in Usernames \cup {Unset} :
          UpdateUser(i, e, n, Unset, NoPassword, NoPassword, 1)

SpecCreate == Init /\ [][NextCreate]_vars

\* Plant notes through the service functions and through the routes.
NextNotes ==
    \/ \E p \in PlantIds \cup {0}, x \in Texts : CreatePlantNote(p, x)
    \/ \E n \in NoteIds, x \in Texts, u \in Ids : UpdatePlantNote(n, x, u)
    \/ \E n \in NoteIds, u \in Ids : DeletePlantNote(n, u)
    \/ \E n \in NoteIds, x \in Texts, u \in Ids : EditPlantNote(n, x, u)
    \/ \E n \in NoteIds, u \in Ids : RemovePlantNote(n, u)

SpecNotes == Init /\ [][NextNotes]_vars

\* Two accounts and their gardens; create_garden also runs step by step in
\* sessions of its own.
Owners == {i \in Ids : Exists(i)}

NextGardens ==
    \/ \E a \in Accounts : CreateUser(a[1], a[2], FirstPassword, "A", 1)
    \/ \E u \in Owners, n \in GardenNames : CreateGarden(u, n)
    \/ \E x \in Sessions, u \in Owners, n \in GardenNames : CreateGardenBegin(x, u, n)
    \/ \E x \in Sessions : CreateGardenCommit(x)
    \/ \E g \in GardenIds, u \in Owners, n \in GardenNames \cup {Unset} : UpdateGarden(g, u, n)
    \/ \E g \in GardenIds, u \in Owners : DeleteGarden(g, u)

SpecGardens == Init /\ [][NextGardens]_vars

\* Two accounts, their gardens and the plants in them.
NextPlants ==
    \/ \E a \in Accounts : CreateUser(a[1], a[2], FirstPassword, "A", 1)
    \/ \E u \in Owners, n \in GardenNames : CreateGarden(u, n)
    \/ \E g \in GardenIds, u \in Owners : DeleteGarden(g, u)
    \/ \E u \in Owners, a \in Aliases, g \in GardenIds : CreatePlant(u, a, g)
    \/ \E g \in GardenIds, u \in Owners, a \in Aliases : AddPlantToGarden(g, u, a)
    \/ \E p \in PlantIds, u \in Owners, a \in Aliases \cup {Unset} : UpdatePlant(p, u, a)
    \/ \E p \in PlantIds, u \in Owners, a \in Aliases \cup {Unset} : UpdatePlantById(p, u, a)
    \/ \E p \in PlantIds, u \in Owners : DeletePlant(p, u)

SpecPlants == Init /\ [][NextPlants]_vars

\* Five requests for the one account, each in its own session, at one time.
Requesters == 1..MaxRequesters

InitRace ==
    /\ users = [i \in Ids |-> IF i = 1
                               THEN NewUser(1, "a@x.com", "au",
                                            get_password_hash(FirstPassword, 1), "A")
                               ELSE NoUser]
    /\ history = [i \in Ids |-> IF i = 1 THEN <<get_password_hash(FirstPassword, 1)>>
                                 ELSE <<>>]
    /\ used_tokens = EmptyBag
    /\ issued = {}
    /\ outbox = {WelcomeEmail("a@x.com")}
    /\ now = 0
    /\ resp = Response("create_user", "created", 1)
    /\ sess = [s \in Requesters |-> Idle]
    /\ notes = [n \in NoteIds |-> NoNote]
    /\ gardens = [g \in GardenIds |-> NoGarden]
    /\ plants = [p \in PlantIds |-> NoPlant]

NextRace ==
    \/ \E x \in Requesters : RequestBegin(x, "a@x.com")
    \/ \E x \in Requesters : RequestCheck(x)
    \/ \E x \in Requesters, sent \in BOOLEAN : RequestMint(x, sent)

SpecRace == InitRace /\ [][NextRace]_vars /\ WF_vars(NextRace)

\* One client sends request after request, each less than an hour after
\* the one before.  It keeps a tally of the calls that were admitted, and
\* whether every call so far came within the limiter's window of the last
\* attempt the limiter counted.
RunClient == 0
RunSession == 1
RunSteps == {0} \cup StreakSteps \cup ElapseSteps

InitRun ==
    /\ users = [i \in Ids |-> IF i = 1
                               THEN NewUser(1, "a@x.com", "au",
                                            get_password_hash(FirstPassword, 1), "A")
                               ELSE NoUser]
    /\ history = [i \in Ids |-> IF i = 1 THEN <<get_password_hash(FirstPassword, 1)>>
                                 ELSE <<>>]
    /\ used_tokens = EmptyBag
    /\ issued = {}
    /\ outbox = {WelcomeEmail("a@x.com")}
    /\ now = 0
    /\ resp = Response("create_user", "created", 1)
    /\ sess = [s \in {RunClient, RunSession} |->
                 IF s = RunClient
                 THEN [stage |-> "client", tokens |-> 0, in_window |-> TRUE]
                 ELSE Idle]
    /\ notes = [n \in NoteIds |-> NoNote]
    /\ gardens = [g \in GardenIds |-> NoGarden]
    /\ plants = [p \in PlantIds |-> NoPlant]

NextCall(s, minutes) ==
    /\ sess[s].stage = "done"
    /\ minutes < WINDOW_MINUTES
    /\ now + minutes <= MaxStreakClock
    /\ now' = now + minutes
    /\ LET last == users[sess[s].uid].last_reset_attempt
       IN sess' = [sess EXCEPT
                     ![s] = Idle,
                     ![RunClient] =
                        [@ EXCEPT !.tokens = @ + (IF sess[s].admitted THEN 1 ELSE 0),
                                  !.in_window = @ /\ (\/ last = None
                                                      \/ now + minutes - last < WINDOW_MINUTES)]]
    /\ UNCHANGED <<users, history, used_tokens, issued, outbox, resp, notes, gardens, plants>>

NextRun ==
    \/ RequestBegin(RunSession, "a@x.com")
    \/ RequestCheck(RunSession)
    \/ \E sent \in BOOLEAN : RequestMint(RunSession, sent)
    \/ \E d \in RunSteps : NextCall(RunSession, d)

SpecRun == InitRun /\ [][NextRun]_vars

TokenTypes == {"access", "refresh", "password_reset"}

\* Lifetimes a caller gives create_access_token.
ExpiresDeltas == {PASSWORD_RESET_TOKEN_EXPIRE_MINUTES, ACCESS_TOKEN_EXPIRE_MINUTES}

\* Tokens, used tokens and invalidation markers in front of is_token_valid.
IssuedRoom == Cardinality(issued) < MaxIssued

NextValid ==
    \/ Tick
    \/ RegisterFirst
    \/ LedgerRoom /\ IssuedRoom /\ RequestPasswordReset("a@x.com", TRUE)
    \/ \E t \in issued :
          LedgerRoom /\ HistoryRoom
          /\ ResetPassword(t, [txt |-> "Reset123!", len |-> 9, complex |-> TRUE], 1)
    \/ \E b \in BOOLEAN, d \in ExpiresDeltas :
          IssuedRoom /\ IssueAccessToken("au", b, d)
    \/ \E ty \in {"access", "password_reset"} :
          LedgerRoom /\ InvalidatePreviousTokens(1, ty)
    \/ \E t \in PresentableTokens, i \in Ids, ty \in TokenTypes : IsTokenValid(t, i, ty)

SpecValid == Init /\ [][NextValid]_vars

\* create_refresh_token({"sub": username})
IssueRefreshToken(sub) ==
    /\ issued' = issued \cup {create_refresh_token(sub)}
    /\ resp' = Response("create_refresh_token", "token", 0)
    /\ UNCHANGED <<users, history, used_tokens, outbox, now, sess, notes, gardens, plants>>

\* Accounts come, are renamed and go, while tokens are minted for the
\* account with id 1 only and presented at any time.
TokenOwner == 1

NextOwner ==
    \/ \E e \in Emails, n \in Usernames, s \in Salts : CreateUser(e, n, FirstPassword, "A", s)
    \/ \E i \in Ids, n \in Usernames : UpdateUser(i, Unset, n, Unset, NoPassword, NoPassword, 1)
    \/ \E i \in Ids : DeleteUser(i)
    \/ \E b \in BOOLEAN :
          Exists(TokenOwner) /\ IssuedRoom
          /\ IssueAccessToken(users[TokenOwner].username, b, ACCESS_TOKEN_EXPIRE_MINUTES)
    \/ Exists(TokenOwner) /\ IssuedRoom /\ IssueRefreshToken(users[TokenOwner].username)
    \/ \E e \in Emails :
          UsersByEmail(e) = {TokenOwner} /\ IssuedRoom /\ RequestPasswordReset(e, TRUE)
    \/ \E t \in issued, p \in StrongPasswords, s \in Salts : ResetPassword(t, p, s)
    \/ \E t \in issued : GetCurrentUser(t)
    \/ \E t \in issued : GetUserFromToken(t)

SpecOwner == Init /\ [][NextOwner]_vars

\* Resets of one account through the service and through the route.
NextReset ==
    \/ Tick
    \/ RegisterFirst
    \/ LedgerRoom /\ RequestPasswordReset("a@x.com", TRUE)
    \/ RouterRequestPasswordReset("a@x.com", TRUE)
    \/ \E t \in PresentableTokens, p \in Passwords, s \in Salts :
          (reset_password(t, p).outcome = "True" => HistoryRoom) /\ ResetPassword(t, p, s)
    \/ \E t \in PresentableTokens, p \in Passwords, s \in Salts :
          (reset_password_route(t, p).status = 200 => HistoryRoom)
          /\ RouterResetPassword(t, p, s)

SpecReset == Init /\ [][NextReset]_vars

(* ================================================================ claims *)
\* The ledger holds a used row for the token.
Redeemed(token) ==
    \E r \in BagToSet(used_tokens) :
        r.token_type = "password_reset" /\ r.token_hash = sha256(token)

\* An invalidation marker of the token's user was written after the token
\* was minted: a newer reset token has been issued since.
Superseded(token) ==
    /\ token # Garbage
    /\ token.type = "password_reset"
    /\ \E i \in UsersByUsername(token.sub), r \in BagToSet(used_tokens) :
          /\ r.token_type = "invalidation_password_reset"
          /\ r.user_id = i
          /\ r.used_at > token.exp - PASSWORD_RESET_TOKEN_EXPIRE_MINUTES

C2_OlderTokenRefused ==
    [][\A t \in PresentableTokens, p \in Passwords, s \in Salts :
          (Superseded(t) /\ ~Redeemed(t) /\ jwt_decode(t) = "ok" /\ ResetPassword(t, p, s))
          => (resp'.outcome # "True" /\ UNCHANGED <<users, history>>)]_vars

Reused(i, password) ==
    \E k \in 1..Len(history[i]) :
        /\ k > Len(history[i]) - PASSWORD_HISTORY_SIZE
        /\ history[i][k].bcrypt = password.txt

NoAccount(email) ==
    \A i \in Ids : users[i] = NoUser \/ users[i] = Gone \/ users[i].email # email

\* C5: a reset request for an address that matches no user changes no user
\* row, writes no ledger row, mints no token and sends no mail; the service
\* returns False and the route answers 200 with the generic message.
C5_UnknownEmailNoEffect ==
    [][\A e \in Emails, b \in BOOLEAN :
          (NoAccount(e) /\ resp'.op \in {"request_password_reset", "password_reset_request"})
          => /\ RequestPasswordReset(e, b)
                => /\ UNCHANGED <<users, history, used_tokens, issued, outbox>>
                   /\ resp'.outcome = "False"
             /\ RouterRequestPasswordReset(e, b)
                => /\ UNCHANGED <<users, history, used_tokens, issued, outbox>>
                   /\ resp'.status = 200
                   /\ resp'.outcome = GenericResetAnswer.detail]_vars

\* The route has answered a request for an address without an account, in a
\* state where another address has one.
C5_Witness ==
    /\ resp.op = "password_reset_request"
    /\ resp.status = 200
    /\ resp.uid = 0
    /\ \E i \in Ids : Exists(i)
    /\ \E e \in Emails : NoAccount(e)

C7_AtMostOneChangePerToken ==
    \A r \in BagToSet(used_tokens) :
        r.token_type = "password_reset"
        => /\ CopiesIn(r, used_tokens) = 1
           /\ \A q \in BagToSet(used_tokens) : q.token_hash = r.token_hash => q = r

\* The users whose address and stored password are the given ones.
Matching(email, password) ==
    {i \in Ids : /\ users[i] # NoUser /\ users[i] # Gone
                 /\ users[i].email = email
                 /\ users[i].hashed_password.bcrypt = password.txt}

\* C8: authenticate_user returns the user whose address and password were
\* given, returns none when the address matches no user or the password is
\* not that user's, and changes no state.
C8_AuthenticateUser ==
    [][\A e \in Emails, p \in Passwords :
          (resp'.op = "authenticate_user" /\ AuthenticateUser(e, p))
          => /\ UNCHANGED <<users, history, used_tokens, issued, outbox, now, sess>>
             /\ IF Matching(e, p) = {}
                THEN resp'.outcome = "none" /\ resp'.uid = 0
                ELSE resp'.outcome = "user" /\ resp'.uid \in Matching(e, p)]_vars

\* A user has been authenticated with a password set by a later change.
C8_Witness ==
    /\ resp.op = "authenticate_user"
    /\ resp.outcome = "user"
    /\ \E i \in Ids : resp.uid = i /\ Exists(i) /\ Len(history[i]) = 2

\* C9: an access token that login returned for a registered user resolves,
\* presented to GET /auth/me, to that user.
C9_LoginTokenResolvesToUser ==
    [][\A t \in issued, i \in Ids :
          (/\ t.type = "access"
           /\ t.sub = str(i)
           /\ users[i] # NoUser /\ users[i] # Gone
           /\ GetCurrentUser(t))
          => (resp'.outcome = "user" /\ resp'.uid = i)]_vars

\* C10: a login with an address that matches no user, or with a password
\* that is not the user's, is answered with status 401 and issues no token.
C10_FailedLoginIs401 ==
    [][\A e \in Emails, p \in Passwords :
          (Matching(e, p) = {} /\ RouterLogin(e, p))
          => (resp'.status = 401 /\ issued' = issued)]_vars

\* No user row holds the user name.
NoUserNamed(username) ==
    \A i \in Ids : users[i] = NoUser \/ users[i] = Gone \/ users[i].username # username

\* C11: reset_password fails with TokenExpired when the token's exp has
\* passed; with InvalidToken when the token does not decode, or decodes
\* with a type other than password_reset or without subject; with
\* UserNotFound when the subject of a reset token names no user.  In each
\* case users (password, counters), history and ledger stay as they are.
C11_TokenErrors ==
    [][\A t \in AnyTokens, p \in Passwords, s \in Salts :
          (resp'.op = "reset_password" /\ ResetPassword(t, p, s))
          => LET error == IF t = Garbage THEN "InvalidToken"
                          ELSE IF t.exp < now THEN "TokenExpired"
                          ELSE IF t.type # "password_reset" \/ t.sub = NoSub
                          THEN "InvalidToken"
                          ELSE IF NoUserNamed(t.sub) THEN "UserNotFound"
                          ELSE "none"
             IN error # "none"
                => /\ resp'.outcome = error
                   /\ UNCHANGED <<users, history, used_tokens, issued, outbox>>]_vars

\* An expired reset token of an account whose password was reset before has
\* been refused as expired.
C11_Witness ==
    /\ resp.op = "reset_password"
    /\ resp.outcome = "TokenExpired"
    /\ \E i \in Ids : Exists(i) /\ Len(history[i]) = 2
    /\ \E t \in issued : t.exp < now /\ ~Redeemed(t)

\* The token can still be redeemed by the user with the password: it is an
\* unexpired, unused reset token of that user, and the password is strong
\* and not among the user's recent ones.
Redeemable(t, i, p) ==
    /\ t # Garbage
    /\ t.type = "password_reset"
    /\ ~(t.exp < now)
    /\ ~Redeemed(t)
    /\ users[i] # NoUser /\ users[i] # Gone
    /\ users[i].username = t.sub
    /\ p.len >= MIN_PASSWORD_LENGTH /\ p.complex
    /\ ~Reused(i, p)

\* C12: a reset_password call rejected for password strength or password
\* reuse writes nothing (no ledger row; users, history, counters as before),
\* and a reset_password call with an unexpired, unused reset token and an
\* acceptable password succeeds, whatever calls were rejected before it.
C12_RejectionKeepsToken ==
    [][\A t \in PresentableTokens, p \in Passwords, s \in Salts :
          (resp'.op = "reset_password" /\ ResetPassword(t, p, s))
          => /\ resp'.outcome \in {"InvalidPassword", "PasswordHistory"}
                => UNCHANGED <<users, history, used_tokens, issued, outbox>>
             /\ \A i \in Ids :
                   Redeemable(t, i, p)
                   => /\ resp'.outcome = "True"
                      /\ users'[i].hashed_password.bcrypt = p.txt]_vars

\* A call has just been rejected for reuse, and its token can still be
\* redeemed with another password.
C12_Witness ==
    /\ resp.op = "reset_password"
    /\ resp.outcome = "PasswordHistory"
    /\ \E t \in issued, p \in Passwords : Redeemable(t, resp.uid, p)

\* The ledger rows that record a redeemed reset token of account i.
PasswordResetRows(i) ==
    {r \in BagToSet(used_tokens) : r.token_type = "password_reset" /\ r.user_id = i}

PasswordResetCount(i) ==
    BagCardinality([r \in PasswordResetRows(i) |-> CopiesIn(r, used_tokens)])

\* Every effect of one successful reset, between the state before and after.
ResetEffects(token, new_password, salt, i) ==
    /\ verify_password(new_password, users'[i].hashed_password)
    /\ history'[i] = Append(history[i], users'[i].hashed_password)
    /\ used_tokens' = used_tokens (+) SetToBag({UsedRow(token, i)})
    /\ users'[i].reset_attempts = 0
    /\ users'[i].reset_lockout_until = None
    /\ \A j \in Ids \ {i} : users'[j] = users[j] /\ history'[j] = history[j]

C14_UniqueEmailAndUsername ==
    /\ [](\A i, j \in Ids :
            (i # j /\ Exists(i) /\ Exists(j))
            => users[i].email # users[j].email /\ users[i].username # users[j].username)
    /\ [][\A x \in Sessions, e \in Emails, n \in Usernames, s \in Salts :
            (CreateBegin(x, e, n, FirstPassword, s)
                /\ UsersByEmail(e) \cup UsersByUsername(n) # {})
            => /\ resp'.op = "create_user" /\ resp'.outcome = "UserAlreadyExists"
               /\ UNCHANGED <<users, history, sess>>]_vars

C14_Witness ==
    /\ \A i \in Ids : Exists(i)
    /\ resp.op = "create_user" /\ resp.outcome = "UserAlreadyExists"
    /\ \E x \in Sessions : sess[x].stage = "queried"
\* The hash of account i as a row of the users table holds it, if any.
CurrentHash(table, i) ==
    IF table[i] = NoUser \/ table[i] = Gone THEN NoPassword ELSE table[i].hashed_password

C16_WrongCurrentPasswordChangesNothing ==
    [][\A i \in Ids, e \in Emails \cup {Unset}, np \in StrongPasswords,
         cp \in LongPasswords \cup {NoPassword}, s \in Salts :
          (/\ resp'.op = "update_user"
           /\ Exists(i)
           /\ cp = NoPassword \/ ~verify_password(cp, users[i].hashed_password)
           /\ UpdateUser(i, e, Unset, Unset, np, cp, s))
          => /\ resp'.outcome = "InvalidCredentials"
             /\ UNCHANGED <<users, history, used_tokens, outbox>>]_vars

C16_Witness ==
    /\ resp.op = "update_user" /\ resp.outcome = "InvalidCredentials"
    /\ Exists(resp.uid)
    /\ Len(history[resp.uid]) = 2
    /\ \E e \in Emails : e # users[resp.uid].email /\ UsersByEmail(e) = {}
\* The type tag each operation that takes a token asks for.
RequiredType(op) ==
    IF op = "get_current_user" THEN "access"
    ELSE IF op = "reset_password" THEN "password_reset"
    ELSE "refresh"

\* A call of one of the four operations with token t has just answered.
TokenCall(op, t) ==
    /\ resp'.op = op
    /\ \/ op = "get_current_user" /\ GetCurrentUser(t)
       \/ op = "get_user_from_token" /\ GetUserFromToken(t)
       \/ op = "refresh" /\ RouterRefresh(t)
       \/ op = "reset_password"
          /\ \E p \in Passwords, s \in Salts : ResetPassword(t, p, s)

TokenOps == {"get_current_user", "get_user_from_token", "refresh", "reset_password"}

Accepted(answer) ==
    answer.outcome \in {"user", "True", "Token refrescado exitosamente"}

NoteKept(note_id) == notes'[note_id] = notes[note_id]

\* C18: only the owner of a plant note can change or remove it.
\* update_plant_note and delete_plant_note for a user other than the owner
\* answer 403 and leave the note as it is, and the same call by the owner
\* succeeds; the same through PUT and DELETE /notes/{note_id}.
C18_OnlyOwnerChangesNote ==
    [][\A n \in NoteIds, x \in Texts, u \in Ids :
          notes[n] # NoNote
          => /\ (UpdatePlantNote(n, x, u) \/ EditPlantNote(n, x, u))
                => IF u = NoteOwner(n)
                   THEN resp'.status = 200 /\ notes'[n].text = x.stripped
                   ELSE resp'.status = 403 /\ NoteKept(n)
             /\ (DeletePlantNote(n, u) \/ RemovePlantNote(n, u))
                => IF u = NoteOwner(n)
                   THEN resp'.status = 200 /\ notes'[n] = NoNote
                   ELSE resp'.status = 403 /\ NoteKept(n)]_vars
\* A request_password_reset that has just set a new lockout for account i.
LockoutSet(i) ==
    /\ resp'.op = "request_password_reset"
    /\ Exists(i)
    /\ users'[i].reset_lockout_until # users[i].reset_lockout_until

\* The lockouts of one streak, by the number of attempts over the maximum.
StreakLockouts == <<5, 10, 20, 40, 60>>

\* C19 as stated: a lockout at reset_attempts = n > MAX_RESET_ATTEMPTS lasts
\* min(BASE_LOCKOUT_MINUTES * 2^(n - MAX_RESET_ATTEMPTS - 1),
\* MAX_LOCKOUT_MINUTES) minutes, and the lockouts of one streak go on after
\* the first 60 minutes with 60 minutes again: the first counted request
\* after the fifth lockout sets the sixth.
C19_StreakGoesOnAtSixty ==
    [][\A i \in Ids :
          /\ LockoutSet(i)
             => users'[i].reset_lockout_until - now
                   = Min(BASE_LOCKOUT_MINUTES
                           * Pow2(users'[i].reset_attempts - MAX_RESET_ATTEMPTS - 1),
                         MAX_LOCKOUT_MINUTES)
          /\ (/\ resp'.op = "request_password_reset"
              /\ Exists(i)
              /\ users[i].reset_attempts = MAX_RESET_ATTEMPTS + Len(StreakLockouts)
              /\ ~LockedOut(users[i])
              /\ RequestPasswordReset(users[i].email, TRUE))
             => users'[i].reset_lockout_until = now + MAX_LOCKOUT_MINUTES]_vars

\* C19: a lockout at reset_attempts = n > MAX_RESET_ATTEMPTS lasts
\* min(BASE_LOCKOUT_MINUTES * 2^(n - MAX_RESET_ATTEMPTS - 1),
\* MAX_LOCKOUT_MINUTES) minutes; the lockouts of one streak last 5, 10, 20,
\* 40 and 60 minutes, none exceeds 60, and the first counted request after
\* the 60-minute lockout starts the count again at 1 and is served.
C19_LockoutDurations ==
    [][\A i \in Ids :
          /\ LockoutSet(i)
             => LET over == users'[i].reset_attempts - MAX_RESET_ATTEMPTS
                    minutes == users'[i].reset_lockout_until - now
                IN /\ over \in 1..Len(StreakLockouts)
                   /\ minutes = StreakLockouts[over]
                   /\ minutes <= MAX_LOCKOUT_MINUTES
                   /\ resp'.outcome = "RateLimit"
          /\ (/\ resp'.op = "request_password_reset"
              /\ Exists(i)
              /\ users[i].reset_attempts = MAX_RESET_ATTEMPTS + Len(StreakLockouts)
              /\ ~LockedOut(users[i])
              /\ RequestPasswordReset(users[i].email, TRUE))
             => /\ users'[i].reset_attempts = 1
                /\ users'[i].reset_lockout_until = users[i].reset_lockout_until
                /\ resp'.outcome = "True"]_vars

C19_Witness ==
    /\ resp.op = "request_password_reset" /\ resp.outcome = "RateLimit"
    /\ Exists(resp.uid)
    /\ users[resp.uid].reset_attempts = MAX_RESET_ATTEMPTS + Len(StreakLockouts)
    /\ users[resp.uid].last_reset_attempt = now
    /\ users[resp.uid].reset_lockout_until = now + MAX_LOCKOUT_MINUTES
\* C20: while reset_lockout_until of a user is set and in the future, every
\* request_password_reset for that user fails with RateLimitExceeded and
\* leaves reset_attempts, last_reset_attempt, reset_lockout_until and the
\* ledger as they are; no token is minted and no email is sent.
C20_LockoutIsFrozen ==
    [][\A i \in Ids :
          (/\ resp'.op = "request_password_reset"
           /\ Exists(i)
           /\ users[i].reset_lockout_until # None
           /\ users[i].reset_lockout_until > now
           /\ RequestPasswordReset(users[i].email, TRUE))
          => /\ resp'.outcome = "RateLimit"
             /\ users'[i] = users[i]
             /\ UNCHANGED <<used_tokens, issued, outbox, history>>]_vars

C20_Witness ==
    /\ resp.op = "request_password_reset" /\ resp.outcome = "RateLimit"
    /\ Exists(resp.uid)
    /\ users[resp.uid].reset_lockout_until # None
    /\ users[resp.uid].reset_lockout_until > now
    /\ users[resp.uid].last_reset_attempt < now
    /\ users[resp.uid].reset_attempts > MAX_RESET_ATTEMPTS + 1
\* A request_password_reset for account i that no lockout in the future
\* rejects has just run.
CountedRequest(i) ==
    /\ resp'.op = "request_password_reset"
    /\ Exists(i)
    /\ ~(users[i].reset_lockout_until # None /\ users[i].reset_lockout_until > now)
    /\ RequestPasswordReset(users[i].email, TRUE)

\* C21: on every reset request that no active lockout rejects,
\* reset_attempts grows by exactly 1 when the previous attempt was less
\* than one hour earlier and becomes 1 when it was one hour or more earlier
\* or there was none; last_reset_attempt becomes the current time, also
\* when the request is then rejected for exceeding the threshold.
C21_CounterAndTimestamp ==
    [][\A i \in Ids :
          CountedRequest(i)
          => /\ users'[i].reset_attempts =
                   IF users[i].last_reset_attempt = None THEN 1
                   ELSE IF now - users[i].last_reset_attempt >= WINDOW_MINUTES THEN 1
                   ELSE users[i].reset_attempts + 1
             /\ users'[i].last_reset_attempt = now]_vars

C21_Witness ==
    /\ resp.op = "request_password_reset" /\ resp.outcome = "RateLimit"
    /\ Exists(resp.uid)
    /\ now >= WINDOW_MINUTES
    /\ users[resp.uid].reset_attempts = MAX_RESET_ATTEMPTS + 1
    /\ users[resp.uid].last_reset_attempt = now
    /\ users[resp.uid].reset_lockout_until = now + BASE_LOCKOUT_MINUTES
\* The first request_password_reset for account i after a lockout has run
\* out has just run.
FirstRequestAfterLockout(i) ==
    /\ CountedRequest(i)
    /\ users[i].reset_lockout_until # None
    /\ users[i].reset_attempts > MAX_RESET_ATTEMPTS

TokenMinted == issued' # issued /\ outbox' # outbox /\ used_tokens' # used_tokens

\* C22 as stated: after every lockout the limiter can impose, the first
\* request_password_reset made once reset_lockout_until has passed is
\* admitted (a token is issued) and sets reset_attempts to 1.
C22_EveryLockoutEndsInNormal ==
    [][\A i \in Ids :
          FirstRequestAfterLockout(i)
          => /\ resp'.outcome = "True"
             /\ TokenMinted
             /\ users'[i].reset_attempts = 1]_vars

\* C22: the first request_password_reset made once reset_lockout_until has
\* passed is admitted (a token is issued) and sets reset_attempts to 1 when
\* it comes one hour or more after last_reset_attempt, which is always so
\* after the 60-minute lockout; when it comes earlier it is counted as one
\* more attempt and rejected with the next, longer lockout.
C22_LockoutEndsAfterAnHour ==
    [][\A i \in Ids :
          FirstRequestAfterLockout(i)
          => IF now - users[i].last_reset_attempt >= WINDOW_MINUTES
             THEN /\ resp'.outcome = "True"
                  /\ TokenMinted
                  /\ users'[i].reset_attempts = 1
             ELSE /\ resp'.outcome = "RateLimit"
                  /\ ~TokenMinted
                  /\ users'[i].reset_attempts = users[i].reset_attempts + 1
                  /\ users'[i].reset_lockout_until > now
                  /\ users[i].reset_lockout_until - users[i].last_reset_attempt
                        < MAX_LOCKOUT_MINUTES]_vars

C22_Witness ==
    /\ resp.op = "request_password_reset" /\ resp.outcome = "True"
    /\ Exists(resp.uid)
    /\ users[resp.uid].reset_attempts = 1
    /\ users[resp.uid].last_reset_attempt = now
    /\ users[resp.uid].reset_lockout_until = now
\* An invalidation marker of the type for the user, written after the time.
MarkerAfter(user_id, token_type, time) ==
    \E r \in BagToSet(used_tokens) :
        /\ r.user_id = user_id
        /\ r.token_type = "invalidation_" \o token_type
        /\ r.used_at > time

Admitted ==
    {s \in DOMAIN sess : \/ sess[s].stage = "counted"
                         \/ sess[s].stage = "done" /\ sess[s].admitted}

\* C24: concurrent requests for one user are not serialized: the limiter of
\* each request writes the counter computed from the row it loaded, whatever
\* other requests committed in between, so the counter is never ahead of the
\* admitted requests and two requests that both loaded before either
\* committed leave it at one.
C24_NoLockGuardsTheCounter ==
    /\ [](users[1].reset_attempts <= Cardinality(Admitted) + 1)
    /\ [][\A s \in DOMAIN sess :
            (/\ sess[s].stage = "loaded"
             /\ sess'[s].stage # "loaded"
             /\ ~LockedOut(sess[s].user))
            => users'[1].reset_attempts = sess[s].user.reset_attempts + 1]_vars

\* Two requests were admitted, none is in flight, and the counter is one.
C24_Witness ==
    /\ Cardinality(Admitted) = 2
    /\ \A s \in DOMAIN sess : sess[s].stage # "loaded"
    /\ users[1].reset_attempts = 1

AllDone == \A s \in DOMAIN sess : sess[s].stage = "done"

Mints(s) == sess[s].stage = "counted" /\ sess'[s].stage = "done"

\* The request of session s ends in RateLimitExceeded.
Refused(s) == sess[s].stage = "loaded" /\ sess'[s].stage = "done"

\* The statement as written: a token is minted only on a committed counter
\* in 1..MAX_RESET_ATTEMPTS with no lockout ahead, a refused request leaves
\* ledger, tokens and mail alone, and a run of requests less than an hour
\* apart is given at most MAX_RESET_ATTEMPTS tokens.
C26_AtMostMaxTokensPerRun ==
    /\ [](sess[RunClient].tokens <= MAX_RESET_ATTEMPTS)
    /\ [][/\ Mints(RunSession) =>
              (/\ users[1].reset_attempts \in 1..MAX_RESET_ATTEMPTS
               /\ ~LockedOut(users[1]))
          /\ Refused(RunSession) => UNCHANGED <<used_tokens, issued, outbox>>]_vars

\* C26: a token is minted only after the limiter committed a counter in
\* 1..MAX_RESET_ATTEMPTS with no lockout ahead; a refused request mints no
\* token, writes no marker and sends no email; and a sequential run of
\* requests, each less than an hour after the last attempt the limiter
\* counted, is given at most MAX_RESET_ATTEMPTS tokens.
C26_TokenOnlyAfterLimiter ==
    /\ [](sess[RunClient].in_window => sess[RunClient].tokens <= MAX_RESET_ATTEMPTS)
    /\ [][/\ Mints(RunSession) =>
              (/\ users[1] = sess[RunSession].user
               /\ users[1].reset_attempts \in 1..MAX_RESET_ATTEMPTS
               /\ ~LockedOut(users[1])
               /\ used_tokens' # used_tokens)
          /\ Refused(RunSession) => UNCHANGED <<used_tokens, issued, outbox>>]_vars

\* The client was given MAX_RESET_ATTEMPTS tokens in one window and the
\* next request was refused.
C26_Witness ==
    /\ sess[RunClient].in_window
    /\ sess[RunClient].tokens = MAX_RESET_ATTEMPTS
    /\ sess[RunSession].stage = "done"
    /\ sess[RunSession].outcome = "RateLimit"

\* C27: a user whose reset_lockout_until is in the future has a
\* reset_attempts above MAX_RESET_ATTEMPTS, also when request_password_reset
\* and reset_password for that user interleave.
C27_LockoutImpliesCounterAboveMax ==
    \A i \in Ids :
        (Exists(i) /\ LockedOut(users[i])) => users[i].reset_attempts > MAX_RESET_ATTEMPTS

\* C28: a token minted for a user resolves to that user or fails, in
\* get_current_user, get_user_from_token and reset_password, whatever
\* accounts were renamed, deleted or created since.
C28_TokenResolvesToItsUser ==
    \A t \in issued :
        /\ get_current_user(t).outcome = "user" => get_current_user(t).uid = TokenOwner
        /\ get_user_from_token(t).outcome = "user" => get_user_from_token(t).uid = TokenOwner
        /\ \A p \in StrongPasswords :
              reset_password(t, p).outcome = "True" => reset_password(t, p).uid = TokenOwner

\* C29: every plant is in a garden of the plant's own user.
C29_PlantInOwnGarden ==
    \A p \in PlantIds :
        HasPlant(p) => /\ HasGarden(plants[p].garden_id)
                       /\ gardens[plants[p].garden_id].user_id = plants[p].user_id

\* C30: the gardens of one user have pairwise distinct names, also when
\* two create_garden calls interleave between the query and the commit.
C30_GardenNamesDistinctPerUser ==
    \A g \in GardenIds, h \in GardenIds :
        (g # h /\ HasGarden(g) /\ HasGarden(h) /\ gardens[g].user_id = gardens[h].user_id)
        => gardens[g].name # gardens[h].name
====
